---- MODULE Spec2Model ----
(***************************************************************************)
(* A model of the cuckoo filter of package cuckoo (cuckoo.go): the Filter  *)
(* with Add / Delete / Contains and its eviction loop, the two bucket      *)
(* encodings, and the hashing that derives a fingerprint and two candidate *)
(* bucket indexes from an item.                                            *)
(*                                                                         *)
(* A Go uint64 is modelled as the set of the positions (0 = least          *)
(* significant) of its one bits, so that shifts, masks, xor and the        *)
(* wrap-around of 64-bit arithmetic are exactly those of the program; a    *)
(* fingerprint (uint16) is the same with positions below 16.  Bucket       *)
(* indexes and counters are naturals.                                      *)
(***************************************************************************)
EXTENDS Integers, Sequences, FiniteSets, TLC

(***************************************************************************)
(* uint64 arithmetic                                                       *)
(***************************************************************************)
\* The width of a Go uint64.
WordBits == 64

RECURSIVE natBits(_, _)
\* The one bits of the natural n, numbered from k.
natBits(n, k) ==
    IF n = 0 THEN {}
    ELSE (IF n % 2 = 1 THEN {k} ELSE {}) \cup natBits(n \div 2, k + 1)

\* uint64(n) for a natural n.
FromNat(n) == natBits(n, 0)

RECURSIVE sumBits(_)
\* The value of a word whose one bits are all below 31.
sumBits(x) ==
    IF x = {} THEN 0
    ELSE LET k == CHOOSE k \in x : TRUE IN 2^k + sumBits(x \ {k})

\* The value of the low w bits of the word x (w <= 31).
NatOf(x, w) == sumBits({k \in x : k < w})

\* x << s and x >> s on 64 bits: bits shifted out are lost.
Shl(x, s) == {k + s : k \in {j \in x : j + s < WordBits}}
Shr(x, s) == {k - s : k \in {j \in x : j >= s}}

\* x & y, x | y, x ^ y.
And(x, y) == x \cap y
Or(x, y) == x \cup y
Xor(x, y) == (x \ y) \cup (y \ x)

\* The lowest one bit of a nonzero word.
LowBit(x) == CHOOSE k \in x : \A j \in x : k <= j

\* x - 1 on 64 bits (0 - 1 wraps to all ones).
Dec(x) ==
    IF x = {} THEN 0..(WordBits - 1)
    ELSE (x \ {LowBit(x)}) \cup (0..(LowBit(x) - 1))

\* (uint64(1) << w) - 1.
LowMask(w) == Dec(Shl({0}, w))

\* The conversions uint16(x) and byte(x): the low 16 and the low 8 bits.
Uint16(x) == And(x, 0..15)
Byte(x) == And(x, 0..7)

RECURSIVE Add64(_, _)
\* x + y modulo 2^64: add without carry, then add the carries.
Add64(x, y) ==
    IF y = {} THEN x ELSE Add64(Xor(x, y), Shl(And(x, y), 1))

RECURSIVE Mul64(_, _)
\* x * y modulo 2^64: the sum of x shifted by each one bit of y.
Mul64(x, y) ==
    IF y = {} THEN {}
    ELSE Add64(Shl(x, LowBit(y)), Mul64(x, y \ {LowBit(y)}))

\* The 16-bit limb number i (0 = least significant) of the word x.
Limb(x, i) == NatOf(Shr(x, 16 * i), 16)

\* x % n for a word x and a natural n in 1..2^15, by Horner's rule on the limbs.
Mod64(x, n) ==
    LET r3 == Limb(x, 3) % n
        r2 == (r3 * 65536 + Limb(x, 2)) % n
        r1 == (r2 * 65536 + Limb(x, 1)) % n
    IN  (r1 * 65536 + Limb(x, 0)) % n

\* The position of the highest one bit: a length that is one short.
floorLog2(x) == IF x = {} THEN 0 ELSE (CHOOSE k \in x : \A j \in x : j <= k)

\* bits.Len64: the number of bits needed to represent x.
Len64(x) == IF x = {} THEN 0 ELSE (CHOOSE k \in x : \A j \in x : j <= k) + 1

(***************************************************************************)
(* Hashing: hash/fnv's 64-bit FNV-1a, as hashItem and hashFingerprint use  *)
(* it.  An item is a sequence of bytes (naturals below 256).               *)
(***************************************************************************)
\* FNV-1a's 64-bit offset basis 0xcbf29ce484222325 and prime 0x100000001b3.
fnvOffset64 ==
    Or(Or(Shl(FromNat(\hcbf2), 48), Shl(FromNat(\h9ce4), 32)),
       Or(Shl(FromNat(\h8422), 16), FromNat(\h2325)))
fnvPrime64 == Or(Shl({0}, 40), FromNat(\h1b3))

\* One byte written to the hash: xor it in, multiply by the prime.
fnvStep(h, byte) == Mul64(Xor(h, byte), fnvPrime64)

RECURSIVE fnvWrite(_, _)
\* h.Write(bytes) for a sequence of bytes given as words.
fnvWrite(h, bytes) ==
    IF bytes = <<>> THEN h
    ELSE fnvWrite(fnvStep(h, Head(bytes)), Tail(bytes))

\* fnv.New64a(), Write(bytes), Sum64().
fnv64a(bytes) == fnvWrite(fnvOffset64, bytes)

(***************************************************************************)
(* Buckets: entries [8]fingerprint and the logical length l.  The empty    *)
(* slot 0 is the empty set of bits.                                        *)
(***************************************************************************)
\* The capacity of bucket.entries.
EntriesCap == 8
Slots == 0..(EntriesCap - 1)

\* The zero value of bucket ("var b bucket").
zeroBucket == [entries |-> [i \in Slots |-> {}], l |-> 0]

\* A contains whose loop stops one slot early.
containsButLast(b, fp) == \E i \in 0..(b.l - 2) : b.entries[i] = fp

\* bucket.contains: some slot below l holds fp.
contains(b, fp) == \E i \in 0..(b.l - 1) : b.entries[i] = fp

\* A hasEmpty whose loop stops one slot early.
hasEmptyButLast(b) == \E i \in 0..(b.l - 2) : b.entries[i] = {}

\* bucket.hasEmpty: some slot below l holds 0.
hasEmpty(b) == \E i \in 0..(b.l - 1) : b.entries[i] = {}

\* An add that writes slot 0 whatever it holds.
addAtFirstSlot(b, fp) == IF hasEmpty(b) THEN [b EXCEPT !.entries[0] = fp] ELSE b

\* bucket.add: fp goes to the first empty slot below l; no change without one.
add(b, fp) ==
    IF hasEmpty(b)
    THEN LET i == CHOOSE i \in 0..(b.l - 1) :
                      /\ b.entries[i] = {}
                      /\ \A j \in 0..(i - 1) : b.entries[j] # {}
         IN  [b EXCEPT !.entries[i] = fp]
    ELSE b

\* A delete whose loop starts at slot 1.
deleteSkipFirst(b, fp) ==
    [b EXCEPT !.entries =
        [i \in Slots |->
            IF 0 < i /\ i < b.l /\ b.entries[i] = fp THEN {} ELSE b.entries[i]]]

\* bucket.delete: the loop has no return, so every slot below l that holds fp
\* is cleared.
delete(b, fp) ==
    [b EXCEPT !.entries =
        [i \in Slots |-> IF i < b.l /\ b.entries[i] = fp THEN {} ELSE b.entries[i]]]

(***************************************************************************)
(* The lookup tables of the packed encoding, between the 3,876 sorted      *)
(* 4-tuples of 4-bit values (packed into 16 bits, first entry in the top   *)
(* nibble) and their 12-bit codes.                                         *)
(***************************************************************************)
\* Binomial coefficients C(n, k) for k in 2..4.
Choose2(n) == (n * (n - 1)) \div 2
Choose3(n) == (n * (n - 1) * (n - 2)) \div 6
Choose4(n) == (n * (n - 1) * (n - 2) * (n - 3)) \div 24

\* The nibble number i (0 = top) of a 16-bit value.
Nibble(packed, i) == (packed \div (2^(12 - 4 * i))) % 16

\* Forward table: the rank of the sorted tuple among all sorted tuples.
lookupFingerprintsToBits(packed) ==
    Nibble(packed, 0) + Choose2(Nibble(packed, 1) + 1)
        + Choose3(Nibble(packed, 2) + 2) + Choose4(Nibble(packed, 3) + 3)

\* Inverse table: the sorted tuple of a rank, found a nibble at a time from
\* the last one.
lookupBitsToFingerprints(code) ==
    LET m3 == CHOOSE m \in 3..18 : Choose4(m) <= code /\ code < Choose4(m + 1)
        r3 == code - Choose4(m3)
        m2 == CHOOSE m \in 2..17 : Choose3(m) <= r3 /\ r3 < Choose3(m + 1)
        r2 == r3 - Choose3(m2)
        m1 == CHOOSE m \in 1..16 : Choose2(m) <= r2 /\ r2 < Choose2(m + 1)
        r1 == r2 - Choose2(m1)
    IN  r1 * 4096 + (m1 - 1) * 256 + (m2 - 2) * 16 + (m3 - 3)

(***************************************************************************)
(* Bucket encodings.  An encoding is [kind, f, b].                         *)
(***************************************************************************)
\* directBucketEncoding.size.
directSize(e) == e.f * e.b

\* directBucketEncoding.encode: slot i at bit offset i*f.
directEncode(e, b) ==
    UNION {Shl(b.entries[i], i * e.f) : i \in 0..(e.b - 1)}

\* A directBucketEncoding.decode that reads slot i one bit short.
directDecodeNarrow(e, x) ==
    [entries |-> [i \in Slots |->
                    IF i < e.b
                    THEN Uint16(And(Shr(x, i * e.f), LowMask(e.f - 1)))
                    ELSE {}],
     l |-> e.b]

\* directBucketEncoding.decode: slot i is bits [i*f, (i+1)*f), as a uint16.
directDecode(e, x) ==
    [entries |-> [i \in Slots |->
                    IF i < e.b
                    THEN Uint16(And(Shr(x, i * e.f), LowMask(e.f)))
                    ELSE {}],
     l |-> e.b]

\* packedBucketEncoding.size.
packedSize(e) == 12 + (e.f - 4) * 4

\* entry & 0xF, as a number.
lower4(entry) == NatOf(entry, 4)

\* One compare-and-swap of the bubble sort, on the low 4 bits.
swapByLower4(es, j) ==
    IF lower4(es[j]) > lower4(es[j + 1])
    THEN [es EXCEPT ![j] = es[j + 1], ![j + 1] = es[j]]
    ELSE es

RECURSIVE sortInner(_, _, _)
\* The inner loop: j from its current value up to i - 1.
sortInner(es, j, i) ==
    IF j >= i THEN es ELSE sortInner(swapByLower4(es, j), j + 1, i)

RECURSIVE sortOuter(_, _)
\* The outer loop: i from its current value down to 0.
sortOuter(es, i) ==
    IF i < 0 THEN es ELSE sortOuter(sortInner(es, 0, i), i - 1)

\* A sort that makes one pass only.
sortBucketOnePass(b) == [b EXCEPT !.entries = sortInner(b.entries, 0, 3)]

\* packedBucketEncoding.sortBucketByLower4.
sortBucketByLower4(b) == [b EXCEPT !.entries = sortOuter(b.entries, 3)]

\* The uint16 "packed" of encode: the low nibble of entry i at bit 12 - 4i.
packedNibbles(b) ==
    NatOf(UNION {Shl(And(b.entries[i], 0..3), 12 - 4 * i) : i \in 0..3}, 16)

\* packedBucketEncoding.encode: the entries' high bits at offsets (f-4)*i,
\* the 12-bit code of the sorted low nibbles above them.
packedEncode(e, b) ==
    LET s == sortBucketByLower4(b)
        high == UNION {Shl(Shr(s.entries[i], 4), (e.f - 4) * i) : i \in 0..3}
    IN  Or(high,
           Shl(FromNat(lookupFingerprintsToBits(packedNibbles(s))), packedSize(e) - 12))

\* packedBucketEncoding.decode.
packedDecode(e, x) ==
    LET packed == lookupBitsToFingerprints(NatOf(Shr(x, packedSize(e) - 12), 16))
        mask == LowMask(e.f - 4)
    IN  [entries |-> [i \in Slots |->
                        IF i < 4
                        THEN Or(FromNat(Nibble(packed, i)),
                                Uint16(Shl(And(Shr(x, (e.f - 4) * i), mask), 4)))
                        ELSE {}],
         l |-> 4]

\* The bucketEncoding interface: dispatch on the strategy.
encode(e, b) == IF e.kind = "packed" THEN packedEncode(e, b) ELSE directEncode(e, b)
decode(e, x) == IF e.kind = "packed" THEN packedDecode(e, x) ELSE directDecode(e, x)
size(e) == IF e.kind = "packed" THEN packedSize(e) ELSE directSize(e)

(***************************************************************************)
(* The bit array that stores the encoded buckets: n words of k bits.       *)
(***************************************************************************)
bitarrayNew(n, k) == [k |-> k, a |-> [i \in 0..(n - 1) |-> {}]]
bitarrayLen(ba) == Cardinality(DOMAIN ba.a)
bitarrayGet(ba, i) == ba.a[i]
bitarraySet(ba, i, bits) == [ba EXCEPT !.a[i] = And(bits, LowMask(ba.k))]

(***************************************************************************)
(* The Filter: [inner, bucketEncoding, count, overflowed, f].              *)
(***************************************************************************)
\* The bounds on the parameters that NewRaw accepts.
MinF == 2
MaxF == 16
MinB == 1
MaxB == 8
MaxFB == 64

\* NewRaw's test of its parameters: TRUE when it panics.
invalidParams(f, b) ==
    f < MinF \/ f > MaxF \/ b < MinB \/ b > MaxB \/ f * b > MaxFB

\* A choice of the encoding by the fingerprint width alone.
chooseEncodingByWidth(f, b) ==
    IF f >= 4
    THEN [kind |-> "packed", f |-> f, b |-> 4]
    ELSE [kind |-> "direct", f |-> f, b |-> b]

\* NewRaw's choice of the encoding.
chooseEncoding(f, b) ==
    IF f >= 4 /\ b = 4
    THEN [kind |-> "packed", f |-> f, b |-> 4]
    ELSE [kind |-> "direct", f |-> f, b |-> b]

\* A NewRaw that starts the counter at n.
NewRawCounted(f, b, n) ==
    LET enc == chooseEncoding(f, b)
    IN  [inner |-> bitarrayNew(2^Len64(FromNat(n)), size(enc)),
         bucketEncoding |-> enc,
         count |-> n,
         overflowed |-> FALSE,
         f |-> f]

\* NewRaw, for parameters it accepts: n is rounded to a power of two.
NewRaw(f, b, n) ==
    LET enc == chooseEncoding(f, b)
    IN  [inner |-> bitarrayNew(2^Len64(FromNat(n)), size(enc)),
         bucketEncoding |-> enc,
         count |-> 0,
         overflowed |-> FALSE,
         f |-> f]

\* Filter.SizeBytes and Filter.nBuckets.
SizeBytes(flt) == bitarrayLen(flt.inner) * flt.inner.k
nBuckets(flt) == bitarrayLen(flt.inner)

RECURSIVE fingerprintFrom(_, _, _)
\* The loop of hashToFingerprint for fingerprints of f bits, from the given
\* shift on: the first nonzero f-bit window at a shift above 0, else 1.
fingerprintFrom(f, hash, shift) ==
    IF shift > 0
    THEN LET result == Uint16(And(Shr(hash, shift), LowMask(f)))
         IN  IF result # {} THEN result
             ELSE fingerprintFrom(f, hash, shift - f)
    ELSE {0}

\* Filter.hashToFingerprint.
hashToFingerprint(flt, hash) == fingerprintFrom(flt.f, hash, 64 - flt.f)

\* The items the callers use: byte strings.  With two buckets, <<1>> and <<5>>
\* have the same fingerprint and the same first index 0 (their candidate
\* buckets are 0 and 1); <<32, 3>> has another fingerprint, whose two
\* candidate buckets are both bucket 0.
Items == {<<1>>, <<5>>, <<32, 3>>}

\* The parameters <<f, b, n>> the filters are built with: a direct encoding
\* and a packed encoding, of two buckets each.
FilterParams == {<<2, 2, 1>>, <<4, 4, 1>>}

\* The hashes of the items, computed once.
itemHashes == [x \in Items |-> fnv64a([i \in 1..Len(x) |-> FromNat(x[i])])]

\* Filter.hashItem: the FNV-1a hash of the item's bytes.
hashItem(x) == itemHashes[x]

\* The fingerprints of the items, and their hashes computed once.
itemFingerprints ==
    {fingerprintFrom(p[1], hashItem(x), 64 - p[1]) : p \in FilterParams, x \in Items}
fingerprintHashes ==
    [fp \in itemFingerprints |-> fnv64a(<<Byte(Shr(fp, 8)), Byte(fp)>>)]

\* Filter.hashFingerprint: the FNV-1a hash of the fingerprint's two bytes,
\* byte(x >> 8) then byte(x).
hashFingerprint(fp) ==
    IF fp \in itemFingerprints THEN fingerprintHashes[fp]
    ELSE fnv64a(<<Byte(Shr(fp, 8)), Byte(fp)>>)

\* An otherIdx that adds where the code xors.
otherIdxByAdd(n, fp, i1) == Mod64(Add64(FromNat(i1), hashFingerprint(fp)), n)

\* The body of Filter.otherIdx for a filter of n buckets.
otherIdxOf(n, fp, i1) == Mod64(Xor(FromNat(i1), hashFingerprint(fp)), n)

\* The body of Filter.itemToIdxs for a filter of n buckets and fingerprints
\* of f bits: <<fingerprint, i1, i2>>.
itemToIdxsOf(f, n, x) ==
    LET h == hashItem(x)
        fp == fingerprintFrom(f, h, 64 - f)
        i1 == Mod64(h, n)
    IN  <<fp, i1, otherIdxOf(n, fp, i1)>>

\* Both, computed once for the filters of FilterParams (by their <<f, n>>)
\* and the items' fingerprints.
filterShapes == {<<p[1], 2^Len64(FromNat(p[3]))>> : p \in FilterParams}
otherIdxs ==
    [s \in filterShapes |->
        [fp \in itemFingerprints |->
            [i1 \in 0..(s[2] - 1) |-> otherIdxOf(s[2], fp, i1)]]]
itemIdxs ==
    [s \in filterShapes |-> [x \in Items |-> itemToIdxsOf(s[1], s[2], x)]]

\* Filter.otherIdx.
otherIdx(flt, fp, i1) ==
    IF fp \in itemFingerprints /\ <<flt.f, nBuckets(flt)>> \in filterShapes
    THEN otherIdxs[<<flt.f, nBuckets(flt)>>][fp][i1]
    ELSE otherIdxOf(nBuckets(flt), fp, i1)

\* Filter.itemToIdxs.
itemToIdxs(flt, x) ==
    IF <<flt.f, nBuckets(flt)>> \in filterShapes
    THEN itemIdxs[<<flt.f, nBuckets(flt)>>][x]
    ELSE itemToIdxsOf(flt.f, nBuckets(flt), x)

\* An increment that comes after the return of an overflowed filter.
countUpUnlessOverflowed(flt) ==
    IF flt.overflowed THEN flt ELSE [flt EXCEPT !.count = @ + 1]

\* fl.count++ of Add.
countUp(flt) == [flt EXCEPT !.count = @ + 1]

\* A decrement that comes after the return of an overflowed filter.
countDownUnlessOverflowed(flt) ==
    IF flt.overflowed THEN flt ELSE [flt EXCEPT !.count = @ - 1]

\* A decrement that stops at 0.
countDownToZero(flt) ==
    IF flt.count > 0 THEN [flt EXCEPT !.count = @ - 1] ELSE flt

\* fl.count-- of Delete.
countDown(flt) == [flt EXCEPT !.count = @ - 1]

\* Filter.getBucket and Filter.setBucket (the filter with bucket i replaced).
getBucket(flt, i) == decode(flt.bucketEncoding, bitarrayGet(flt.inner, i))
setBucket(flt, i, b) ==
    [flt EXCEPT !.inner = bitarraySet(flt.inner, i, encode(flt.bucketEncoding, b))]

\* A Contains without the test of overflowed.
ContainsBucketsOnly(flt, x) ==
    LET idx == itemToIdxs(flt, x)
    IN  IF contains(getBucket(flt, idx[2]), idx[1]) THEN "Maybe"
        ELSE IF contains(getBucket(flt, idx[3]), idx[1]) THEN "Maybe"
        ELSE "No"

\* Filter.Contains.
Contains(flt, x) ==
    LET idx == itemToIdxs(flt, x)
    IN  IF flt.overflowed THEN "Maybe"
        ELSE IF contains(getBucket(flt, idx[2]), idx[1]) THEN "Maybe"
        ELSE IF contains(getBucket(flt, idx[3]), idx[1]) THEN "Maybe"
        ELSE "No"

\* Filter.Overflowed and Filter.Count.
Overflowed(flt) == flt.overflowed
Count(flt) == flt.count

(***************************************************************************)
(* The state: one Filter fl and the caller's position in it.               *)
(*   pc   "idle" between calls, "kick" inside Add's eviction loop,         *)
(*        "panicked" after Delete's panic                                  *)
(*   kx   the item of the Add that is in its eviction loop, or that left   *)
(*        it in the last step; else NoItem                                 *)
(*   kf, ki, kn   the eviction loop's locals f, i and n                    *)
(*   adds, dels   how often Add and Delete were called with each item      *)
(*   arg, ret   the argument and the result of a function applied on its   *)
(*        own (SpecNewRaw, SpecEncoding)                                   *)
(*   misuse       some Delete was called with an item not currently added  *)
(***************************************************************************)
VARIABLES fl, pc, kx, kf, ki, kn, adds, dels, misuse, arg, ret

vars == <<fl, pc, kx, kf, ki, kn, adds, dels, misuse, arg, ret>>

\* A loop bound that is one too many.
maxNumKicksOffByOne == 500 + 1

\* The eviction loop's bound (maxNumKicks).
maxNumKicks == 500

\* The most calls of Add and of Delete in one run.
MaxAdds == 5
MaxDeletes == 2

RECURSIVE Sum(_, _)
\* The sum of the function c over the set S.
Sum(c, S) ==
    IF S = {} THEN 0
    ELSE LET x == CHOOSE x \in S : TRUE IN c[x] + Sum(c, S \ {x})

NumAdds == Sum(adds, Items)
NumDeletes == Sum(dels, Items)

\* No item: the value of kx outside the eviction loop.
NoItem == <<>>

\* No argument and no result: arg and ret where no function is applied.
NoArg == [op |-> "none"]
NoRet == [res |-> "none"]

\* The caller's side of a filter that no call has been made on.
Uncalled ==
    /\ pc = "idle"
    /\ kx = NoItem /\ kf = {} /\ ki = 0 /\ kn = 0
    /\ adds = [x \in Items |-> 0]
    /\ dels = [x \in Items |-> 0]
    /\ misuse = FALSE

Init ==
    /\ \E p \in FilterParams : fl = NewRaw(p[1], p[2], p[3])
    /\ Uncalled
    /\ arg = NoArg /\ ret = NoRet

\* Add(x) up to the eviction loop: the counter, the early return of an
\* overflowed filter, the two candidate buckets in order, and else the
\* random choice of the bucket to kick from.
Add(x) ==
    /\ pc = "idle"
    /\ NumAdds < MaxAdds
    /\ adds' = [adds EXCEPT ![x] = @ + 1]
    /\ UNCHANGED <<dels, misuse, arg, ret>>
    /\ LET counted == countUp(fl)
           idx == itemToIdxs(fl, x)
           fp == idx[1]
           i1 == idx[2]
           i2 == idx[3]
       IN  IF fl.overflowed
           THEN /\ fl' = counted
                /\ kx' = NoItem
                /\ UNCHANGED <<pc, kf, ki, kn>>
           ELSE IF hasEmpty(getBucket(counted, i1))
           THEN /\ fl' = setBucket(counted, i1, add(getBucket(counted, i1), fp))
                /\ kx' = NoItem
                /\ UNCHANGED <<pc, kf, ki, kn>>
           ELSE IF hasEmpty(getBucket(counted, i2))
           THEN /\ fl' = setBucket(counted, i2, add(getBucket(counted, i2), fp))
                /\ kx' = NoItem
                /\ UNCHANGED <<pc, kf, ki, kn>>
           ELSE /\ fl' = counted
                /\ pc' = "kick"
                /\ kx' = x
                /\ kf' = fp
                /\ \E i \in {i1, i2} : ki' = i
                /\ kn' = 0

\* An entry drawn among all the slots of the array, not the first l.
kickEntriesOfArray(b) == Slots

\* The entries the eviction loop draws from: rand.Int() % b.l.
kickEntries(b) == 0..(b.l - 1)

\* A next bucket taken from the fingerprint that was put down.
kickTargetOfCarried(flt, evicted, carried, i) == otherIdx(flt, carried, i)

\* The bucket the eviction loop goes to next: the other bucket of the
\* evicted fingerprint (carried is the fingerprint put in its place).
kickTarget(flt, evicted, carried, i) == otherIdx(flt, evicted, i)

\* One iteration of Add's eviction loop: swap the carried fingerprint with a
\* random entry of bucket ki, move to the evicted fingerprint's other bucket,
\* and put it there if there is room; after maxNumKicks iterations without
\* room the filter is overflowed.  kx stays the item of this Add until the
\* next call; when the loop runs out, kf, ki and kn keep the fingerprint that
\* was lost, its bucket and the number of swaps.
Kick ==
    /\ pc = "kick"
    /\ UNCHANGED <<adds, dels, misuse, arg, ret>>
    /\ \E entry \in kickEntries(getBucket(fl, ki)) :
         LET b == getBucket(fl, ki)
             evicted == b.entries[entry]
             swapped == setBucket(fl, ki, [b EXCEPT !.entries[entry] = kf])
             i == kickTarget(fl, evicted, kf, ki)
             nb == getBucket(swapped, i)
         IN  IF hasEmpty(nb)
             THEN /\ fl' = setBucket(swapped, i, add(nb, evicted))
                  /\ pc' = "idle"
                  /\ kx' = kx /\ kf' = {} /\ ki' = 0 /\ kn' = 0
             ELSE IF kn + 1 < maxNumKicks
             THEN /\ fl' = swapped
                  /\ pc' = "kick"
                  /\ kx' = kx /\ kf' = evicted /\ ki' = i /\ kn' = kn + 1
             ELSE /\ fl' = [swapped EXCEPT !.overflowed = TRUE]
                  /\ pc' = "idle"
                  /\ kx' = kx /\ kf' = evicted /\ ki' = i /\ kn' = kn + 1

\* Delete(x): the counter, the early return of an overflowed filter, then
\* the first candidate bucket that contains the fingerprint, and the panic
\* when neither does.
Delete(x) ==
    /\ pc = "idle"
    /\ NumDeletes < MaxDeletes
    /\ dels' = [dels EXCEPT ![x] = @ + 1]
    /\ misuse' = (misuse \/ adds[x] <= dels[x])
    /\ kx' = NoItem
    /\ UNCHANGED <<adds, kf, ki, kn, arg, ret>>
    /\ LET counted == countDown(fl)
           idx == itemToIdxs(fl, x)
           fp == idx[1]
           i1 == idx[2]
           i2 == idx[3]
       IN  IF fl.overflowed
           THEN /\ fl' = counted
                /\ pc' = "idle"
           ELSE IF contains(getBucket(counted, i1), fp)
           THEN /\ fl' = setBucket(counted, i1, delete(getBucket(counted, i1), fp))
                /\ pc' = "idle"
           ELSE IF contains(getBucket(counted, i2), fp)
           THEN /\ fl' = setBucket(counted, i2, delete(getBucket(counted, i2), fp))
                /\ pc' = "idle"
           ELSE /\ fl' = counted
                /\ pc' = "panicked"

\* A call of Contains(x): the filter is only read; the answer is
\* Contains(fl, x).
Query(x) ==
    /\ pc = "idle"
    /\ Contains(fl, x) \in {"No", "Maybe"}
    /\ UNCHANGED vars

Next ==
    \/ \E x \in Items : Add(x)
    \/ Kick
    \/ \E x \in Items : Delete(x)
    \/ \E x \in Items : Query(x)

Spec == Init /\ [][Next]_vars

(***************************************************************************)
(* NewRaw on its own: the parameters are drawn from ranges that reach past *)
(* the legal ones on both sides, and NewRaw is applied once.               *)
(***************************************************************************)
\* The largest f, b and n that NewRaw is called with.
MaxArgF == 18
MaxArgB == 10
MaxArgN == 8

\* The filter before any construction.
NoFilter == [inner |-> bitarrayNew(0, 0), bucketEncoding |-> chooseEncoding(0, 0),
             count |-> 0, overflowed |-> FALSE, f |-> 0]

InitNewRaw ==
    /\ arg \in {[op |-> "NewRaw", f |-> f, b |-> b, n |-> n] :
                  f \in 0..MaxArgF, b \in 0..MaxArgB, n \in 0..MaxArgN}
    /\ ret = NoRet
    /\ fl = NoFilter
    /\ Uncalled

\* The call NewRaw(f, b, n): the panic on invalid parameters, else the filter.
Construct ==
    /\ arg.op = "NewRaw"
    /\ ret = NoRet
    /\ IF invalidParams(arg.f, arg.b)
       THEN /\ ret' = [res |-> "panic", msg |-> "invalid params"]
            /\ fl' = fl
       ELSE /\ ret' = [res |-> "ok"]
            /\ fl' = NewRaw(arg.f, arg.b, arg.n)
    /\ UNCHANGED <<pc, kx, kf, ki, kn, adds, dels, misuse, arg>>

NextNewRaw == Construct

SpecNewRaw == InitNewRaw /\ [][NextNewRaw]_vars

(***************************************************************************)
(* The bucket encodings and the lookup tables on their own: a bucket is    *)
(* encoded and decoded again, a sorted tuple or a code is taken through    *)
(* one table and back through the other.                                   *)
(***************************************************************************)
\* The fingerprint values 0, 1 and 2^f - 1, and with them 2^(f-1) and
\* 10 (2 when f is 2, 2 or 6 when f is 3).
BoundaryVals(f) == {{}, {0}, 0..(f - 1)}
MixedVals(f) == BoundaryVals(f) \cup {{f - 1}, {1, 3} \cap (0..(f - 1))}

\* The <<f, b>> of the encodings: direct, direct with 16-bit fingerprints,
\* the three packed ones; and the direct one that fills the 64 bits.
EncodingParams == {<<2, 2>>, <<16, 3>>, <<4, 4>>, <<5, 4>>, <<16, 4>>}
WideEncodingParams == {<<8, 8>>}

\* The buckets of encoding e with entries from V.
BucketsOver(e, V) ==
    {[entries |-> [i \in Slots |-> IF i < e.b THEN t[i] ELSE {}], l |-> e.b] :
        t \in [0..(e.b - 1) -> V]}

\* The sorted 4-tuples of 4-bit values, packed, and their codes.
NumSortedTuples == 3876
SortedTuples ==
    {p \in 0..65535 : \A i \in 0..2 : Nibble(p, i) <= Nibble(p, i + 1)}

InitEncoding ==
    /\ arg \in
         UNION {{[op |-> "bucket", e |-> chooseEncoding(p[1], p[2]), b |-> b] :
                    b \in BucketsOver(chooseEncoding(p[1], p[2]), MixedVals(p[1]))} :
                 p \in EncodingParams}
         \cup
         UNION {{[op |-> "bucket", e |-> chooseEncoding(p[1], p[2]), b |-> b] :
                    b \in BucketsOver(chooseEncoding(p[1], p[2]), BoundaryVals(p[1]))} :
                 p \in WideEncodingParams}
         \cup {[op |-> "tuple", packed |-> t] : t \in SortedTuples}
         \cup {[op |-> "code", code |-> c] : c \in 0..(NumSortedTuples - 1)}
    /\ ret = NoRet
    /\ fl = NoFilter
    /\ Uncalled

\* decode(encode(b)).
EncodeDecode ==
    /\ arg.op = "bucket"
    /\ ret = NoRet
    /\ ret' = [res |-> "ok", x |-> encode(arg.e, arg.b),
               b |-> decode(arg.e, encode(arg.e, arg.b))]
    /\ UNCHANGED <<fl, pc, kx, kf, ki, kn, adds, dels, misuse, arg>>

\* A sorted tuple through the forward table and back.
TableForward ==
    /\ arg.op = "tuple"
    /\ ret = NoRet
    /\ ret' = [res |-> "ok", code |-> lookupFingerprintsToBits(arg.packed),
               packed |-> lookupBitsToFingerprints(lookupFingerprintsToBits(arg.packed))]
    /\ UNCHANGED <<fl, pc, kx, kf, ki, kn, adds, dels, misuse, arg>>

\* A code through the inverse table and back.
TableInverse ==
    /\ arg.op = "code"
    /\ ret = NoRet
    /\ ret' = [res |-> "ok", packed |-> lookupBitsToFingerprints(arg.code),
               code |-> lookupFingerprintsToBits(lookupBitsToFingerprints(arg.code))]
    /\ UNCHANGED <<fl, pc, kx, kf, ki, kn, adds, dels, misuse, arg>>

NextEncoding == EncodeDecode \/ TableForward \/ TableInverse

SpecEncoding == InitEncoding /\ [][NextEncoding]_vars

(***************************************************************************)
(* Properties.                                                             *)
(***************************************************************************)
\* The number of slots of bucket b that hold fp.
slotsHolding(b, fp) == Cardinality({i \in 0..(b.l - 1) : b.entries[i] = fp})

\* The number of slots of the filter's buckets that hold a fingerprint.
slotsUsed(flt) ==
    Sum([i \in 0..(nBuckets(flt) - 1) |->
            LET b == getBucket(flt, i)
            IN  Cardinality({j \in 0..(b.l - 1) : b.entries[j] # {}})],
        0..(nBuckets(flt) - 1))

\* x is currently added: added more often than deleted.
CurrentlyAdded(x) == adds[x] > dels[x]

\* The step is a call of Delete(x) (its first and only step).
DeleteStep(x) == dels'[x] = dels[x] + 1

\* The step is a call of Add(x) (its first step).
AddStep(x) == adds'[x] = adds[x] + 1

\* C1: no false negatives.  Between calls, when every Delete so far was
\* called with an item that was currently added, Contains answers Maybe for
\* every item that is currently added.
C1_NoFalseNegatives ==
    (pc = "idle" /\ ~misuse) =>
        \A x \in Items : CurrentlyAdded(x) => Contains(fl, x) = "Maybe"

\* C2: after calls of Add only, Contains answers Maybe for every item that
\* was added, once the Add has returned.
C2_AddOnlyMaybe ==
    (pc = "idle" /\ NumDeletes = 0) =>
        \A x \in Items : adds[x] > 0 => Contains(fl, x) = "Maybe"

\* C2's case: a filter that is not overflowed, on which no Delete was called
\* and the last Add has just returned from its eviction loop, having moved
\* fingerprints; its item and an item added earlier both answer Maybe.
C2_Witness ==
    /\ pc = "idle" /\ NumDeletes = 0 /\ ~fl.overflowed
    /\ kx # NoItem /\ Contains(fl, kx) = "Maybe"
    /\ \E y \in Items \ {kx} : adds[y] > 0 /\ Contains(fl, y) = "Maybe"

\* C3: a Delete on a filter that is not overflowed, which finds the
\* fingerprint, leaves the bucket it chose (the first candidate that holds
\* the fingerprint) with exactly one slot fewer holding the fingerprint.
C3_DeleteClearsOne ==
    [][\A x \in Items :
         (DeleteStep(x) /\ ~fl.overflowed /\ pc' = "idle") =>
            LET idx == itemToIdxs(fl, x)
                i == IF slotsHolding(getBucket(fl, idx[2]), idx[1]) > 0
                     THEN idx[2] ELSE idx[3]
            IN  slotsHolding(getBucket(fl', i), idx[1])
                    = slotsHolding(getBucket(fl, i), idx[1]) - 1]_vars

\* C4: once the filter is overflowed it stays overflowed over every step,
\* and in every overflowed state Contains answers Maybe for every item.
C4_OverflowedMonotonic ==
    [][/\ fl.overflowed => fl'.overflowed
       /\ fl'.overflowed => \A x \in Items : Contains(fl', x) = "Maybe"]_vars

\* C4's case: an overflowed filter whose counter is below the number of
\* fingerprints it stores, which only calls of Delete after the overflow
\* bring about, and that still answers Maybe for an item never added.
C4_Witness ==
    /\ fl.overflowed /\ pc = "idle"
    /\ Count(fl) < slotsUsed(fl)
    /\ \E x \in Items : adds[x] = 0 /\ Contains(fl, x) = "Maybe"

\* C5: on a filter that is not overflowed, Delete(x) panics exactly when no
\* slot of x's two candidate buckets holds x's fingerprint, and returns
\* otherwise.
C5_DeleteItemNotFound ==
    [][\A x \in Items :
         (DeleteStep(x) /\ ~fl.overflowed) =>
            LET idx == itemToIdxs(fl, x)
                absent == /\ slotsHolding(getBucket(fl, idx[2]), idx[1]) = 0
                          /\ slotsHolding(getBucket(fl, idx[3]), idx[1]) = 0
            IN  /\ (pc' = "panicked") <=> absent
                /\ (pc' = "idle") <=> ~absent]_vars

\* C5's case: Delete has panicked on a filter that is not overflowed and
\* holds some fingerprint, but not the one of the item of the call.
C5_Witness ==
    /\ pc = "panicked" /\ ~fl.overflowed
    /\ slotsUsed(fl) > 0
    /\ \E x \in Items : dels[x] > 0 /\ Contains(fl, x) = "No"

\* C6: NewRaw(f, b, n) panics when f is outside 2..16, b is outside 1..8 or
\* f * b is 64 or more, and returns a filter otherwise.
C6_ConstructRawRejects ==
    ret # NoRet =>
        ((ret.res = "panic") <=>
            (arg.f < 2 \/ arg.f > 16 \/ arg.b < 1 \/ arg.b > 8 \/ arg.f * arg.b >= 64))

\* Every slot of bucket b holds a fingerprint.
isFull(b) == \A i \in 0..(b.l - 1) : b.entries[i] # {}

\* Both candidate buckets of item x are full in filter flt.
candidatesFull(flt, x) ==
    /\ isFull(getBucket(flt, itemToIdxs(flt, x)[2]))
    /\ isFull(getBucket(flt, itemToIdxs(flt, x)[3]))

\* The most calls of Add in a run of SpecFair.
MaxFairAdds == 3

\* A call of Add(x) in a run of calls of Add only.
AddFair(x) == NumAdds < MaxFairAdds /\ Add(x)

NextFair == (\E x \in Items : AddFair(x)) \/ Kick

\* Calls of Add, with the steps of the eviction loop taken whenever the loop
\* is entered: a call that has started runs on.
SpecFair == Init /\ [][NextFair]_vars /\ WF_vars(Kick)

\* C7: Add terminates and never panics.  It enters the eviction loop only
\* with both candidate buckets full; every iteration is one more swap, the
\* loop is left for good before a 501st, and each iteration that goes on
\* ended at a full bucket.  The filter becomes overflowed only in the 500th
\* iteration of a loop, which also ended at a full bucket.
C7_AddTerminates ==
    /\ [][/\ (pc' = "kick") =>
                /\ kn' < 500
                /\ candidatesFull(fl', kx')
                /\ isFull(getBucket(fl', ki'))
          /\ (pc = "kick") =>
                /\ pc' \in {"idle", "kick"}
                /\ pc' = "kick" => kn' = kn + 1
          /\ \A x \in Items : AddStep(x) => pc' \in {"idle", "kick"}
          /\ (~fl.overflowed /\ fl'.overflowed) =>
                /\ pc = "kick" /\ pc' = "idle"
                /\ kn = 499 /\ kn' = 500
                /\ candidatesFull(fl', kx')
                /\ isFull(getBucket(fl', ki'))]_vars
    /\ (pc = "kick") ~> (pc = "idle")

\* C7's case: an Add has just returned from an eviction loop of 500 swaps
\* and left the filter overflowed.
C7_Witness ==
    /\ pc = "idle" /\ fl.overflowed
    /\ kx # NoItem /\ kn = 500
    /\ Count(fl) = NumAdds - NumDeletes

\* The number of slots of x's candidate buckets that hold x's fingerprint.
slotsOf(flt, x) ==
    LET idx == itemToIdxs(flt, x)
    IN  IF idx[2] = idx[3]
        THEN slotsHolding(getBucket(flt, idx[2]), idx[1])
        ELSE slotsHolding(getBucket(flt, idx[2]), idx[1])
                + slotsHolding(getBucket(flt, idx[3]), idx[1])

\* C8: on a filter that is not overflowed, where x was added once and one
\* slot of x's candidate buckets holds x's fingerprint, Delete(x) returns
\* and leaves Contains(x) = No with room in a candidate bucket; and where
\* Contains(x) = No with room in a candidate bucket, Add(x) returns at once
\* with Contains(x) = Maybe.
C8_DeleteThenReAdd ==
    [][\A x \in Items :
         /\ (DeleteStep(x) /\ ~fl.overflowed /\ adds[x] = 1 /\ dels[x] = 0
                /\ slotsOf(fl, x) = 1) =>
               /\ pc' = "idle"
               /\ Contains(fl', x) = "No"
               /\ ~candidatesFull(fl', x)
         /\ (AddStep(x) /\ ~fl.overflowed /\ Contains(fl, x) = "No"
                /\ ~candidatesFull(fl, x)) =>
               /\ pc' = "idle"
               /\ Contains(fl', x) = "Maybe"]_vars

\* C8's case: x was added, deleted and added again and nothing else was
\* called with x's fingerprint (after two Adds and then a Delete no slot
\* would hold it); one slot holds it and Contains(x) = Maybe.
C8_Witness ==
    \E x \in Items :
        /\ pc = "idle" /\ ~fl.overflowed /\ ~misuse
        /\ adds[x] = 2 /\ dels[x] = 1
        /\ \A y \in Items \ {x} :
              itemToIdxs(fl, y)[1] = itemToIdxs(fl, x)[1] => adds[y] = 0
        /\ slotsOf(fl, x) = 1
        /\ Contains(fl, x) = "Maybe"

\* C9: Count() is the number of calls of Add minus the number of calls of
\* Delete, in every state: also inside the eviction loop, on an overflowed
\* filter and after a panic.
C9_CountIsAddsMinusDeletes == Count(fl) = NumAdds - NumDeletes

\* C9's case: an overflowed filter on which Delete was called after the
\* overflow (the counter is below the number of stored fingerprints, and
\* the Add that overflowed the filter is no longer the last call).
C9_Witness ==
    /\ fl.overflowed /\ pc = "idle" /\ kx = NoItem
    /\ NumDeletes > 0
    /\ Count(fl) = NumAdds - NumDeletes
    /\ Count(fl) < slotsUsed(fl)

\* v is a sorted 4-tuple of 4-bit values, packed into 16 bits.
isSortedTuple(v) ==
    v \in 0..65535 /\ \A i \in 0..2 : Nibble(v, i) <= Nibble(v, i + 1)

\* Buckets a and b hold the same fingerprints the same number of times
\* (the empty slots counted too).
multisetEqual(a, b) ==
    /\ a.l = b.l
    /\ \A i \in 0..(a.l - 1) :
          /\ slotsHolding(b, a.entries[i]) = slotsHolding(a, a.entries[i])
          /\ slotsHolding(a, b.entries[i]) = slotsHolding(b, b.entries[i])

\* C10: under both encodings decode(encode(b)) holds the same fingerprints
\* as b, each as often; the forward table takes every sorted tuple to a code
\* below 3,876 that the inverse table takes back to it, and the inverse
\* table takes every code below 3,876 to a sorted tuple that the forward
\* table takes back to it.
C10_EncodeDecodeRoundTrip ==
    ret # NoRet =>
        /\ arg.op = "bucket" => multisetEqual(ret.b, arg.b)
        /\ arg.op = "tuple" => ret.code \in 0..3875 /\ ret.packed = arg.packed
        /\ arg.op = "code" => isSortedTuple(ret.packed) /\ ret.code = arg.code

\* C10's case: a full bucket of 16-bit fingerprints with a duplicate and the
\* largest fingerprint, which the packed encoding gives back in another
\* order.
C10_Witness ==
    /\ ret # NoRet /\ arg.op = "bucket"
    /\ arg.e.kind = "packed" /\ arg.e.f = 16
    /\ \A i \in 0..3 : arg.b.entries[i] # {}
    /\ \E i \in 0..3 : arg.b.entries[i] = 0..15
    /\ \E i, j \in 0..3 : i # j /\ arg.b.entries[i] = arg.b.entries[j]
    /\ ret.b # arg.b
    /\ multisetEqual(ret.b, arg.b)

(***************************************************************************)
(* otherIdx on its own: a filter of each shape and size, a fingerprint and *)
(* a bucket index; otherIdx is applied, and applied again to its result.   *)
(***************************************************************************)
\* The largest n of the filters otherIdx is applied on.
MaxIdxN == 8

\* The <<f, b>> of those filters.
OtherIdxParams == {<<2, 2>>, <<4, 4>>, <<16, 4>>}

\* The fingerprints of f bits that are drawn: every nonzero one up to 4
\* bits, else 1, 10, 2^(f-1) and 2^f - 1.
FingerprintVals(f) ==
    IF f <= 4 THEN (SUBSET (0..(f - 1))) \ {{}} ELSE MixedVals(f) \ {{}}

InitOtherIdx ==
    /\ \E p \in OtherIdxParams, n \in 0..MaxIdxN :
         /\ fl = NewRaw(p[1], p[2], n)
         /\ \E fp \in FingerprintVals(p[1]), i \in 0..(2^Len64(FromNat(n)) - 1) :
              arg = [op |-> "otherIdx", n |-> n, fp |-> fp, i |-> i]
    /\ ret = NoRet
    /\ Uncalled

\* otherIdx(fp, i), and otherIdx(fp, .) of the result.
ApplyOtherIdx ==
    /\ arg.op = "otherIdx"
    /\ ret = NoRet
    /\ ret' = [res |-> "ok", i2 |-> otherIdx(fl, arg.fp, arg.i),
               back |-> otherIdx(fl, arg.fp, otherIdx(fl, arg.fp, arg.i))]
    /\ UNCHANGED <<fl, pc, kx, kf, ki, kn, adds, dels, misuse, arg>>

NextOtherIdx == ApplyOtherIdx

SpecOtherIdx == InitOtherIdx /\ [][NextOtherIdx]_vars

\* C11: otherIdx(f, i) is a bucket index of the filter, and otherIdx(f, .)
\* takes it back to i, for every drawn fingerprint f and every bucket index
\* i of the filter.
C11_OtherIdxInvolution ==
    ret # NoRet =>
        /\ ret.i2 \in 0..(nBuckets(fl) - 1)
        /\ ret.back = arg.i

\* C11's case: a filter of 16 buckets where otherIdx takes an index to
\* another index and back.
C11_Witness ==
    /\ ret # NoRet /\ arg.op = "otherIdx"
    /\ nBuckets(fl) = 16
    /\ ret.i2 # arg.i
    /\ ret.back = arg.i

\* C12: the filter NewRaw returns is not overflowed, has Count() = 0 and
\* answers No for every item.
C12_FreshFilterEmpty ==
    (ret # NoRet /\ ret.res = "ok") =>
        /\ ~Overflowed(fl)
        /\ Count(fl) = 0
        /\ \A x \in Items : Contains(fl, x) = "No"

\* C12's case: NewRaw has returned a filter of 7 requested buckets with the
\* packed encoding, as the test builds it, and it answers No.
C12_Witness ==
    /\ ret # NoRet /\ ret.res = "ok"
    /\ arg.f = 4 /\ arg.b = 4 /\ arg.n = 7
    /\ nBuckets(fl) = 8
    /\ \A x \in Items : Contains(fl, x) = "No"

\* C13: NewRaw(4, 4, 8) returns a filter of exactly 8 buckets, whose
\* SizeBytes() is 12 * 8.
C13_SizeBytesOfEightBuckets ==
    (ret # NoRet /\ arg.f = 4 /\ arg.b = 4 /\ arg.n = 8) =>
        /\ ret.res = "ok"
        /\ nBuckets(fl) = 8
        /\ SizeBytes(fl) = 12 * 8

\* C14: on an overflowed filter an Add changes nothing but count, which
\* it increments, and a Delete changes nothing but count, which it
\* decrements; both return, the Delete without a panic.
C14_OverflowedFrame ==
    [][\A x \in Items :
         /\ (fl.overflowed /\ AddStep(x)) =>
               /\ fl'.inner = fl.inner /\ fl'.overflowed
               /\ fl'.count = fl.count + 1
               /\ pc' = "idle"
         /\ (fl.overflowed /\ DeleteStep(x)) =>
               /\ fl'.inner = fl.inner /\ fl'.overflowed
               /\ fl'.count = fl.count - 1
               /\ pc' = "idle"]_vars

\* C14's case: on an overflowed filter, between calls, Delete has been
\* called with an item that was never added and whose fingerprint no other
\* item has: on a filter that is not overflowed that call panics.
C14_Witness ==
    /\ fl.overflowed /\ pc = "idle"
    /\ \E x \in Items :
          /\ adds[x] = 0 /\ dels[x] > 0
          /\ \A y \in Items \ {x} : itemToIdxs(fl, y)[1] # itemToIdxs(fl, x)[1]

\* C15: count never decreases, over any step of Add and Delete.
C15_CountNonDecreasing == [][fl'.count >= fl.count]_vars

\* C15, amended: count never decreases over the steps of Add, and every
\* call of Delete decreases it by exactly one.
C15_CountDecreasesOnlyByDelete ==
    [][/\ (\A x \in Items : ~DeleteStep(x)) => fl'.count >= fl.count
       /\ \A x \in Items : DeleteStep(x) => fl'.count = fl.count - 1]_vars

\* C15's case: after calls of Add, a Delete has returned on a filter that
\* is not overflowed and count is below the number of calls of Add.
C15_Witness ==
    /\ pc = "idle" /\ ~fl.overflowed
    /\ NumDeletes > 0
    /\ 0 < Count(fl) /\ Count(fl) < NumAdds

(***************************************************************************)
(* Filters of every requested size: NewRaw(f, b, n) for n from 0 on, and   *)
(* then a few calls of Add and Delete.                                     *)
(***************************************************************************)
\* The largest requested bucket count, and the most calls of Add and of
\* Delete.
MaxSizedN == 8
MaxSizedAdds == 2
MaxSizedDeletes == 1

\* The <<f, b>> of these filters.
SizedParams == {<<2, 1>>, <<4, 4>>, <<8, 3>>}

InitSized ==
    /\ \E p \in SizedParams, n \in 0..MaxSizedN :
         /\ arg = [op |-> "NewRaw", f |-> p[1], b |-> p[2], n |-> n]
         /\ fl = NewRaw(p[1], p[2], n)
    /\ ret = [res |-> "ok"]
    /\ Uncalled

AddSized(x) == NumAdds < MaxSizedAdds /\ Add(x)
DeleteSized(x) == NumDeletes < MaxSizedDeletes /\ Delete(x)

NextSized ==
    \/ \E x \in Items : AddSized(x)
    \/ Kick
    \/ \E x \in Items : DeleteSized(x)

SpecSized == InitSized /\ [][NextSized]_vars

\* m is a power of two.
isPowerOfTwo(m) == \E k \in 0..WordBits : m = 2^k

\* C16: the number of buckets of the filter NewRaw(f, b, n) returns is a
\* power of two and at least n, and no step of Add or Delete changes it.
C16_NumBucketsPowerOfTwo ==
    /\ [](isPowerOfTwo(nBuckets(fl)) /\ nBuckets(fl) >= arg.n)
    /\ [][nBuckets(fl') = nBuckets(fl)]_vars

\* C16's case: a filter requested with 5 buckets has 8, after calls of Add
\* and Delete.
C16_Witness ==
    /\ arg.n = 5 /\ nBuckets(fl) = 8
    /\ NumAdds > 0 /\ NumDeletes > 0 /\ pc = "idle"

\* The candidate bucket indexes of item x.
candidatesOf(flt, x) == {itemToIdxs(flt, x)[2], itemToIdxs(flt, x)[3]}

\* C17: in every state, every fingerprint stored in a bucket i is the
\* fingerprint of an item that was added and has i among its two candidate
\* indexes.
C17_StoredAtCandidate ==
    \A i \in 0..(nBuckets(fl) - 1) :
        LET b == getBucket(fl, i)
        IN  \A j \in 0..(b.l - 1) :
                b.entries[j] # {} =>
                    \E x \in Items :
                        /\ adds[x] > 0
                        /\ itemToIdxs(fl, x)[1] = b.entries[j]
                        /\ i \in candidatesOf(fl, x)

\* C17's case: an eviction loop has run out and left the filter overflowed,
\* with an item added whose candidate indexes are not all the buckets, and
\* the fingerprints of two items stored.
C17_Witness ==
    /\ fl.overflowed /\ kn = maxNumKicks
    /\ \E x \in Items :
          /\ adds[x] > 0 /\ slotsOf(fl, x) > 0
          /\ candidatesOf(fl, x) # 0..(nBuckets(fl) - 1)
    /\ \E x, y \in Items :
          /\ itemToIdxs(fl, x)[1] # itemToIdxs(fl, y)[1]
          /\ slotsOf(fl, x) > 0 /\ slotsOf(fl, y) > 0

\* The bucket Add puts x's fingerprint in when a candidate bucket has room:
\* the first candidate unless it is full.
freeCandidate(flt, x) ==
    IF ~isFull(getBucket(flt, itemToIdxs(flt, x)[2]))
    THEN itemToIdxs(flt, x)[2] ELSE itemToIdxs(flt, x)[3]

\* Bucket new is bucket old with fp in one slot that was empty, slot for
\* slot.
oneSlotFilled(old, new, fp) ==
    \E j \in 0..(old.l - 1) :
        /\ old.entries[j] = {} /\ new.entries[j] = fp
        /\ \A k \in 0..(old.l - 1) : k # j => new.entries[k] = old.entries[k]

\* Bucket new holds what bucket old holds, with one empty slot fewer and fp
\* once more.
oneMoreOf(old, new, fp) ==
    /\ new.l = old.l
    /\ slotsHolding(new, fp) = slotsHolding(old, fp) + 1
    /\ slotsHolding(new, {}) = slotsHolding(old, {}) - 1
    /\ \A j \in 0..(old.l - 1) :
          old.entries[j] \notin {{}, fp} =>
              slotsHolding(new, old.entries[j]) = slotsHolding(old, old.entries[j])

\* What C18 says of an Add(x) step except for the bucket that takes the
\* fingerprint: the Add returns, the filter stays not overflowed and every
\* other bucket is unchanged.
noEviction(x) ==
    /\ pc' = "idle" /\ ~fl'.overflowed
    /\ \A k \in 0..(nBuckets(fl) - 1) :
          k # freeCandidate(fl, x) => getBucket(fl', k) = getBucket(fl, k)

\* C18: an Add(x) on a filter that is not overflowed, with room in a
\* candidate bucket, returns without eviction; in the first candidate
\* bucket with room, exactly one slot changes, from empty to the
\* fingerprint; every other bucket is unchanged and overflowed stays false.
C18_AddFillsOneSlot ==
    [][\A x \in Items :
         (AddStep(x) /\ ~fl.overflowed /\ ~candidatesFull(fl, x)) =>
            /\ noEviction(x)
            /\ oneSlotFilled(getBucket(fl, freeCandidate(fl, x)),
                             getBucket(fl', freeCandidate(fl, x)),
                             itemToIdxs(fl, x)[1])]_vars

\* C18, amended: the same, but the first candidate bucket with room holds
\* afterwards what it held with one empty slot replaced by the fingerprint,
\* in any slot order.
C18_AddFillsOneSlotOfMultiset ==
    [][\A x \in Items :
         (AddStep(x) /\ ~fl.overflowed /\ ~candidatesFull(fl, x)) =>
            /\ noEviction(x)
            /\ oneMoreOf(getBucket(fl, freeCandidate(fl, x)),
                         getBucket(fl', freeCandidate(fl, x)),
                         itemToIdxs(fl, x)[1])]_vars

\* C18's case: an Add has put a fingerprint in a second candidate bucket,
\* the first being full, with no eviction loop entered since: the second
\* candidate of an item holds its fingerprint and has room left.
C18_Witness ==
    /\ pc = "idle" /\ ~fl.overflowed /\ kx = NoItem /\ NumDeletes = 0
    /\ \E x \in Items :
          /\ adds[x] > 0
          /\ itemToIdxs(fl, x)[2] # itemToIdxs(fl, x)[3]
          /\ isFull(getBucket(fl, itemToIdxs(fl, x)[2]))
          /\ slotsHolding(getBucket(fl, itemToIdxs(fl, x)[3]), itemToIdxs(fl, x)[1]) > 0
          /\ ~isFull(getBucket(fl, itemToIdxs(fl, x)[3]))

\* C19: in every iteration of the eviction loop the bucket kicked from is
\* full and the fingerprint carried is not 0; after the swap that bucket is
\* still full, and the fingerprint evicted (carried on, put down in its
\* other bucket, or lost when the loop runs out) is not 0.
C19_SwapWithOccupiedSlot ==
    [][(pc = "kick") =>
          /\ isFull(getBucket(fl, ki)) /\ kf # {}
          /\ isFull(getBucket(fl', ki))
          /\ (pc' = "kick" \/ fl'.overflowed) => kf' # {}
          /\ (pc' = "idle" /\ ~fl'.overflowed) => slotsUsed(fl') = slotsUsed(fl) + 1]_vars

\* C19's case: the eviction loop has made swaps and is at a full bucket,
\* carrying a fingerprint other than that of the item being added.
C19_Witness ==
    /\ pc = "kick" /\ kn > 1
    /\ isFull(getBucket(fl, ki))
    /\ kf # {} /\ kf # itemToIdxs(fl, kx)[1]

\* The buckets of the filter, by index.
bucketsOf(flt) == [i \in 0..(nBuckets(flt) - 1) |-> getBucket(flt, i)]

\* The number of slots of the buckets bs that hold fp.
storedCopies(bs, fp) == Sum([i \in DOMAIN bs |-> slotsHolding(bs[i], fp)], DOMAIN bs)

\* The fingerprints stored in filter new are those stored in filter old and
\* the fingerprints of gained, less those of lost (sets of at most one
\* fingerprint each).
storedChange(old, new, gained, lost) ==
    LET ob == bucketsOf(old)
        nb == bucketsOf(new)
    IN  \A fp \in itemFingerprints :
            storedCopies(nb, fp) =
                storedCopies(ob, fp) + (IF fp \in gained THEN 1 ELSE 0)
                    - (IF fp \in lost THEN 1 ELSE 0)

\* C20: Add conserves the stored fingerprints.  A call that finds room
\* adds the item's fingerprint and nothing else; a call that enters the
\* eviction loop stores nothing yet and carries the item's fingerprint;
\* an iteration that goes on stores the fingerprint carried and carries the
\* one evicted instead; an iteration that finds room stores the one carried
\* and returns, so that the call has added exactly the item's fingerprint;
\* the iteration that overflows the filter stores the one carried and drops
\* the one evicted, the number of stored fingerprints unchanged.
C20_AddConservesFingerprints ==
    [][/\ \A x \in Items :
            (AddStep(x) /\ ~fl.overflowed) =>
                IF pc' = "kick"
                THEN /\ storedChange(fl, fl', {}, {})
                     /\ kf' = itemToIdxs(fl, x)[1]
                ELSE storedChange(fl, fl', {itemToIdxs(fl, x)[1]}, {})
       /\ (pc = "kick" /\ pc' = "kick") =>
             storedChange(fl, fl', {kf}, {kf'})
       /\ (pc = "kick" /\ pc' = "idle" /\ ~fl'.overflowed) =>
             storedChange(fl, fl', {kf}, {})
       /\ (pc = "kick" /\ fl'.overflowed) =>
             /\ storedChange(fl, fl', {kf}, {kf'})
             /\ slotsUsed(fl') = slotsUsed(fl)]_vars

\* C20's case: an Add has returned from an eviction loop that found room
\* after relocating: the filter is not overflowed, and every added item's
\* fingerprint is stored as often as items with it were added.
C20_Witness ==
    /\ pc = "idle" /\ ~fl.overflowed /\ kx # NoItem /\ NumDeletes = 0
    /\ slotsUsed(fl) = NumAdds
    /\ \E x, y \in Items :
          /\ itemToIdxs(fl, x)[1] # itemToIdxs(fl, y)[1]
          /\ adds[x] > 0 /\ adds[y] > 0

\* ---------------------------------------------------------------------------
\* hashToFingerprint as a function of the fingerprint width and the hash.

\* The hashes drawn have at most this many one bits.
MaxHashBits == 2

RECURSIVE HashesUpTo(_)
\* The 64-bit words with at most k one bits.
HashesUpTo(k) ==
    IF k = 0 THEN {{}}
    ELSE LET S == HashesUpTo(k - 1)
         IN  S \cup {s \cup {i} : s \in S, i \in 0..(WordBits - 1)}

InitFingerprint ==
    /\ arg \in {[op |-> "hashToFingerprint", f |-> f, h |-> h] :
                  f \in MinF..MaxF, h \in HashesUpTo(MaxHashBits)}
    /\ ret = NoRet
    /\ fl = NoFilter
    /\ Uncalled

\* hashToFingerprint(h) of a filter with fingerprints of f bits.
ApplyHashToFingerprint ==
    /\ arg.op = "hashToFingerprint"
    /\ ret = NoRet
    /\ ret' = [res |-> "ok", fp |-> hashToFingerprint([f |-> arg.f], arg.h)]
    /\ UNCHANGED <<fl, pc, kx, kf, ki, kn, adds, dels, misuse, arg>>

NextFingerprint == ApplyHashToFingerprint

SpecFingerprint == InitFingerprint /\ [][NextFingerprint]_vars

\* The offsets of the non-overlapping f-bit windows of a 64-bit word, taken
\* from the most significant end: 64 - f, 64 - 2f, ..., the last one 0 when f
\* divides 64.
windowShifts(f) == {s \in 0..(WordBits - f) : (WordBits - s) % f = 0}

\* The value of the f-bit window of h at offset s.
windowAt(f, h, s) == {i - s : i \in {j \in h : j >= s /\ j < s + f}}

\* The first nonzero window of h from the most significant end, 1 when all
\* windows are zero.
firstNonzeroWindow(f, h) ==
    LET nz == {s \in windowShifts(f) : windowAt(f, h, s) # {}}
    IN  IF nz = {} THEN {0}
        ELSE windowAt(f, h, CHOOSE s \in nz : \A t \in nz : t <= s)

\* C21: for every 64-bit hash h and width f in 2..16 the fingerprint derived
\* is in 1..2^f - 1 and is the first nonzero value among the non-overlapping
\* f-bit windows of h from the most significant end downward, the window at
\* offset 0 included when f divides 64; it is 1 only as that value or when
\* all windows are zero.
C21_FirstNonzeroWindow ==
    (arg.op = "hashToFingerprint" /\ ret.res = "ok") =>
        /\ ret.fp # {}
        /\ ret.fp \subseteq 0..(arg.f - 1)
        /\ ret.fp = firstNonzeroWindow(arg.f, arg.h)

\* ---------------------------------------------------------------------------
\* The encoding NewRaw selects, applied to buckets of the filter it returns.

InitWidth ==
    /\ \E f \in MinF..MaxF, b \in MinB..MaxB :
         /\ ~invalidParams(f, b)
         /\ fl = NewRaw(f, b, 0)
         /\ \E bk \in BucketsOver(fl.bucketEncoding, BoundaryVals(f)) :
              arg = [op |-> "encode", f |-> f, b |-> b, bucket |-> bk]
    /\ ret = NoRet
    /\ Uncalled

\* bucketEncoding.encode(bucket) of the filter.
EncodeInFilter ==
    /\ arg.op = "encode"
    /\ ret = NoRet
    /\ ret' = [res |-> "ok", x |-> encode(fl.bucketEncoding, arg.bucket)]
    /\ UNCHANGED <<fl, pc, kx, kf, ki, kn, adds, dels, misuse, arg>>

NextWidth == EncodeInFilter

SpecWidth == InitWidth /\ [][NextWidth]_vars

\* C22: construction selects the packed encoding exactly when b = 4 and
\* f >= 4 and the direct one otherwise; the width of a stored bucket is
\* 12 + (f - 4) * 4 bits when packed, f * b bits when direct, and the packed
\* width is strictly below f * b; every value encode produces has no bit at
\* or above the selected width.
C22_EncodingChoiceAndWidth ==
    arg.op = "encode" =>
        LET packed == arg.b = 4 /\ arg.f >= 4
            width == IF packed THEN 12 + (arg.f - 4) * 4 ELSE arg.f * arg.b
        IN  /\ fl.bucketEncoding.kind = (IF packed THEN "packed" ELSE "direct")
            /\ fl.inner.k = width
            /\ packed => width < arg.f * arg.b
            /\ ret.res = "ok" => ret.x \subseteq 0..(width - 1)

\* C22's case: a packed filter of 16-bit fingerprints has encoded a bucket of
\* four maximal fingerprints: the code fills the top of the 60 bits.
C22_Witness ==
    /\ arg.op = "encode" /\ ret.res = "ok"
    /\ arg.f = 16 /\ arg.b = 4
    /\ fl.bucketEncoding.kind = "packed" /\ fl.inner.k = 60
    /\ \A i \in 0..3 : arg.bucket.entries[i] = 0..15
    /\ \E i \in 48..59 : i \in ret.x

\* C23: the direct encoding keeps the order of the slots: for every bucket of
\* b fingerprints of f bits, slot i is bits i*f .. (i+1)*f - 1 of the
\* encoding and no other bit is set, and decode(encode(bucket)) is the
\* bucket slot for slot, of logical length b.
C23_DirectKeepsSlotOrder ==
    (arg.op = "bucket" /\ arg.e.kind = "direct" /\ ret.res = "ok") =>
        /\ \A i \in 0..(arg.e.b - 1) :
              {j - i * arg.e.f :
                  j \in {k \in ret.x : k >= i * arg.e.f /\ k < (i + 1) * arg.e.f}}
                = arg.b.entries[i]
        /\ ret.x \subseteq 0..(arg.e.f * arg.e.b - 1)
        /\ ret.b.l = arg.e.b
        /\ \A i \in Slots : ret.b.entries[i] = arg.b.entries[i]

\* C23's case: a direct bucket of three 16-bit fingerprints, out of order by
\* value, two of them distinct and nonzero, encoded and decoded back.
C23_Witness ==
    /\ arg.op = "bucket" /\ arg.e.kind = "direct" /\ ret.res = "ok"
    /\ arg.e.f = 16 /\ arg.e.b = 3
    /\ arg.b.entries[0] = 0..15 /\ arg.b.entries[1] = {} /\ arg.b.entries[2] = {0}
    /\ ret.b = arg.b

\* Filter.check: TRUE when it returns, FALSE when it panics "bucket broken".
check(flt) ==
    \A i \in 0..(nBuckets(flt) - 1) :
        bitarrayGet(flt.inner, i) = encode(flt.bucketEncoding, getBucket(flt, i))

\* C24: after any sequence of Add and Delete every word of the bit array is
\* a canonical encoding: for each bucket index i,
\* encode(decode(store[i])) = store[i] under the filter's encoding.
C24_StoreCanonical ==
    \A i \in DOMAIN fl.inner.a :
        encode(fl.bucketEncoding, decode(fl.bucketEncoding, fl.inner.a[i]))
          = fl.inner.a[i]

\* C24's case: a packed filter between calls, after Adds and a Delete that
\* rewrote buckets: both buckets hold fingerprints.
C24_Witness ==
    /\ fl.bucketEncoding.kind = "packed"
    /\ pc = "idle" /\ NumDeletes > 0 /\ NumAdds > NumDeletes
    /\ \A i \in DOMAIN fl.inner.a : fl.inner.a[i] # {}
    /\ check(fl)

\* C25: a Delete that panics with ItemNotFound leaves every word of the bit
\* array and the overflowed flag as they were, and the counter one lower; a
\* Delete that returns changes no bucket but the first of the item's two
\* candidates (index1, then index2) whose bucket holds the fingerprint, which
\* on a filter that is not overflowed it does change, no slot of it holding
\* the fingerprint afterwards; the counter is one lower then too.
C25_DeleteTouchesOneBucket ==
    [][\A x \in Items :
         DeleteStep(x) =>
            LET idx == itemToIdxs(fl, x)
                fp == idx[1]
                in1 == slotsHolding(getBucket(fl, idx[2]), fp) > 0
                in2 == slotsHolding(getBucket(fl, idx[3]), fp) > 0
                target == IF in1 THEN idx[2] ELSE idx[3]
            IN  /\ Count(fl') = Count(fl) - 1
                /\ (pc' = "panicked") =>
                      /\ fl'.inner = fl.inner
                      /\ fl'.overflowed = fl.overflowed
                /\ (pc' = "idle") =>
                      /\ \A i \in DOMAIN fl.inner.a :
                            (fl.overflowed \/ ~(in1 \/ in2) \/ i # target) =>
                                fl'.inner.a[i] = fl.inner.a[i]
                      /\ DOMAIN fl'.inner.a = DOMAIN fl.inner.a
                      /\ ~fl.overflowed =>
                            /\ in1 \/ in2
                            /\ fl'.inner.a[target] # fl.inner.a[target]
                            /\ slotsHolding(getBucket(fl', target), fp) = 0]_vars

\* C25's case: on a filter that is not overflowed, a Delete of an added item
\* has returned and then a Delete of an item never added has panicked; the
\* buckets the two calls left alone still hold fingerprints, and the counter
\* went down twice.
C25_Witness ==
    /\ pc = "panicked" /\ ~fl.overflowed
    /\ slotsUsed(fl) > 0
    /\ Count(fl) = NumAdds - 2
    /\ \E x, y \in Items :
          /\ x # y
          /\ adds[x] > 0 /\ dels[x] = 1
          /\ adds[y] = 0 /\ dels[y] = 1
====
